---- MODULE Spec2Model ----
(***************************************************************************)
(* A model of the RoV finance portal (src/app.py, src/database.py,         *)
(* src/models.py): the SQLite store behind SQLAlchemy, the Streamlit       *)
(* script run (main: init_db, then one page handler) and the read-only     *)
(* queries behind the dashboard.                                           *)
(*                                                                         *)
(* Conventions.                                                            *)
(*  - Float amounts and rates are exact rationals <<n, d>> (d > 0, lowest  *)
(*    terms); binary rounding is not modelled.                             *)
(*  - A date is a day ordinal of the year 2024 (1 = 2024-01-01).          *)
(*  - The type column holds the raw string SQLite stores.  SQLAlchemy's    *)
(*    Enum(TransactionType) persists member NAMES, passes an unknown       *)
(*    string through unchanged on write and in bind parameters, and        *)
(*    raises LookupError when a row loads with a string that is no name.   *)
(*  - session_state.user_id is 0 where the code holds None.                *)
(*  - init_db is assumed to reach its commit (the store is available).     *)
(***************************************************************************)
EXTENDS Integers, FiniteSets, Sequences, TLC

VARIABLES accounts, categories, users, transactions, exchange_rates,
          session_state, today, pc, out

vars == <<accounts, categories, users, transactions, exchange_rates,
          session_state, today, pc, out>>

store == <<accounts, categories, users, transactions, exchange_rates>>

(***************************************************************************)
(* Bounds of the model.                                                    *)
(***************************************************************************)
MaxTx == 2
MaxDay == 1

(***************************************************************************)
(* Python values.                                                          *)
(***************************************************************************)
None == "<None>"
NULL == <<>>
LookupError == [kind |-> "raise", py |-> "LookupError"]

PyStr(s) == [kind |-> "str", py |-> s]

\* models.py: class TransactionType(enum.Enum): a member is not a str, so a
\* member never equals its value.
TransactionType_INCOME == [kind |-> "enum", py |-> "INCOME"]
TransactionType_EXPENSE == [kind |-> "enum", py |-> "EXPENSE"]

EnumValue(member) ==
    IF member = TransactionType_INCOME THEN "income" ELSE "expense"

EnumNames == {"INCOME", "EXPENSE"}

\* sqlalchemy Enum._db_value_for_elem: a member or a name gives the name; any
\* other string is returned as it is (validate_strings is off).
DbValueForElem(elem) ==
    IF elem = TransactionType_INCOME THEN "INCOME"
    ELSE IF elem = TransactionType_EXPENSE THEN "EXPENSE"
    ELSE elem.py

\* sqlalchemy Enum._object_value_for_elem: the member of that name, else
\* LookupError.
ObjectValueForElem(raw) ==
    IF raw = "INCOME" THEN TransactionType_INCOME
    ELSE IF raw = "EXPENSE" THEN TransactionType_EXPENSE
    ELSE LookupError

(***************************************************************************)
(* Float arithmetic, as exact rationals.                                   *)
(***************************************************************************)
Abs(n) == IF n < 0 THEN -n ELSE n

RECURSIVE GCD(_, _)
GCD(a, b) == IF b = 0 THEN a ELSE GCD(b, a % b)

Rat(n, d) ==
    LET g == GCD(Abs(n), Abs(d))
        s == IF d < 0 THEN -1 ELSE 1
    IN  <<(s * n) \div g, (s * d) \div g>>

Zero == <<0, 1>>
FAdd(a, b) == Rat(a[1] * b[2] + b[1] * a[2], a[2] * b[2])
FSub(a, b) == Rat(a[1] * b[2] - b[1] * a[2], a[2] * b[2])
FMul(a, b) == Rat(a[1] * b[1], a[2] * b[2])
FDiv(a, b) == Rat(a[1] * b[2], a[2] * b[1])
FLeq(a, b) == a[1] * b[2] <= b[1] * a[2]
FLt(a, b) == a[1] * b[2] < b[1] * a[2]

RECURSIVE FSum(_)
FSum(rows) ==
    IF rows = {} THEN Zero
    ELSE LET r == CHOOSE x \in rows : TRUE
         IN  FAdd(r.amount, FSum(rows \ {r}))

(***************************************************************************)
(* Dates.                                                                  *)
(***************************************************************************)
DaysBefore == <<0, 31, 60, 91, 121, 152, 182, 213, 244, 274, 305, 335, 366>>

\* func.strftime("%Y-%m", date): the calendar month of a day of 2024.
StrftimeYm(d) == CHOOSE m \in 1..12 : DaysBefore[m] < d /\ d <= DaysBefore[m + 1]

FirstToday == 197

(***************************************************************************)
(* Rows.                                                                   *)
(***************************************************************************)
NextId(rows) ==
    IF rows = {} THEN 1
    ELSE (CHOOSE i \in {r.id : r \in rows} : \A r \in rows : r.id <= i) + 1

\* query(...).first() on a non-empty result: the row of least id.
First(rows) == CHOOSE r \in rows : \A q \in rows : r.id <= q.id

(***************************************************************************)
(* database.py                                                             *)
(***************************************************************************)
\* hash_password: base64(salt + PBKDF2(salt, password)); the key derivation is
\* an injective function of (salt, password).
hash_password(password, salt) == [salt |-> salt, key |-> <<salt, password>>]

verify_password(stored_hash, provided_password) ==
    <<stored_hash.salt, provided_password>> = stored_hash.key

fix_enum_data(txs) ==
    {IF t.type = "income" THEN [t EXCEPT !.type = "INCOME"]
     ELSE IF t.type = "expense" THEN [t EXCEPT !.type = "EXPENSE"]
     ELSE t : t \in txs}

default_categories ==
    << "Client Revenue", "Software Expense", "Salary", "Office Supplies",
       "Marketing", "Contractor Fees", "Inter-Account Transfer In",
       "Inter-Account Transfer Out", "Other Income", "Other Expense" >>

RECURSIVE SeedCategories(_, _)
SeedCategories(cats, i) ==
    IF i > Len(default_categories) THEN cats
    ELSE IF \E c \in cats : c.name = default_categories[i]
         THEN SeedCategories(cats, i + 1)
         ELSE SeedCategories(
                  cats \cup {[id |-> NextId(cats), name |-> default_categories[i]]},
                  i + 1)

SeedAccount_NoLookup(accs, name, code) ==
    accs \cup {[id |-> NextId(accs), name |-> name, currency_code |-> code]}

SeedAccount(accs, name, code) ==
    IF \E a \in accs : a.currency_code = code THEN accs
    ELSE accs \cup {[id |-> NextId(accs), name |-> name, currency_code |-> code]}

SeedAccounts(accs) ==
    SeedAccount(SeedAccount(accs, "US Business Account", "USD"),
                "India Business Account", "INR")

SeedUser(us, username, password, salt, role) ==
    IF \E u \in us : u.username = username THEN us
    ELSE us \cup {[id |-> NextId(us), username |-> username,
                   password_hash |-> hash_password(password, salt),
                   role |-> role]}

SeedUsers(us, salt1, salt2) ==
    SeedUser(SeedUser(us, "admin", "admin123", salt1, "admin"),
             "viewer", "view123", salt2, "viewer")

NoData == [kind |-> "none"]
NoOutput == [page |-> "none", msg |-> "", data |-> NoData]

\* init_db, first statement of main() and the body of database.py's __main__.
InitDb(salt1, salt2) ==
    /\ transactions' = fix_enum_data(transactions)
    /\ accounts' = SeedAccounts(accounts)
    /\ categories' = SeedCategories(categories, 1)
    /\ users' = SeedUsers(users, salt1, salt2)
    /\ pc' = "ready"
    /\ UNCHANGED <<exchange_rates, session_state, today, out>>

(***************************************************************************)
(* models.py                                                               *)
(***************************************************************************)
\* Account.balance over the rows of account.transactions; loading a row whose
\* type string is no member name raises LookupError.
balance(rows) ==
    IF \E t \in rows : ObjectValueForElem(t.type) = LookupError
    THEN LookupError
    ELSE LET live == {t \in rows : ~t.is_void}
             plus == {t \in live : ObjectValueForElem(t.type)
                                     = PyStr(EnumValue(TransactionType_INCOME))}
         IN  FSub(FSum(plus), FSum(live \ plus))

(***************************************************************************)
(* app.py: helper functions                                                *)
(***************************************************************************)
FallbackRate == <<83, 1>>

\* The outcome of requests.get(...).json()['rates']['INR']: "fail" for any
\* exception, else the rate.
FetchFailed(fetch) == fetch = <<>>

fetch_and_store_rows_AlwaysInsert(rates, fetch, day) ==
    IF FetchFailed(fetch) THEN rates
    ELSE rates \cup {[id |-> NextId(rates), date |-> day, usd_to_inr |-> fetch]}

\* fetch_and_store_exchange_rate: the rows afterwards.
fetch_and_store_rows(rates, fetch, day) ==
    IF FetchFailed(fetch) THEN rates
    ELSE IF \E r \in rates : r.date = day
         THEN LET existing == First({r \in rates : r.date = day})
              IN  (rates \ {existing})
                      \cup {[existing EXCEPT !.usd_to_inr = fetch]}
         ELSE rates \cup {[id |-> NextId(rates), date |-> day,
                           usd_to_inr |-> fetch]}

\* fetch_and_store_exchange_rate: the value returned.
fetch_and_store_value(fetch) ==
    IF FetchFailed(fetch) THEN FallbackRate ELSE fetch

LatestRow_Oldest(rates) ==
    First({r \in rates : \A q \in rates : r.date <= q.date})

\* order_by(ExchangeRate.date.desc()).first()
LatestRow(rates) ==
    First({r \in rates : \A q \in rates : q.date <= r.date})

get_latest_exchange_rate(rates, fetch) ==
    IF rates # {} THEN LatestRow(rates).usd_to_inr
    ELSE fetch_and_store_value(fetch)

get_latest_rows(rates, fetch, day) ==
    IF rates # {} THEN rates ELSE fetch_and_store_rows(rates, fetch, day)

get_account_balance(accs, txs, account_id) ==
    IF \E a \in accs : a.id = account_id
    THEN balance({t \in txs : t.account_id = account_id})
    ELSE Zero

WindowDays == 180

\* get_profit_loss_data: the grouped query, then the pivot, whose column labels
\* are the TransactionType members the query returns.  The result is a
\* function from each month of the pivot to its row, a function from column
\* label to total; the empty frame is the empty function.
ProfitLossRows(txs, day) ==
    {t \in txs : t.date >= day - WindowDays /\ ~t.is_void}

PivotCell(rows, m, raw) ==
    FSum({t \in rows : StrftimeYm(t.date) = m /\ t.type = raw})

get_profit_loss_data(txs, day) ==
    LET rows == ProfitLossRows(txs, day)
        months == {StrftimeYm(t.date) : t \in rows}
        raws == {t.type : t \in rows}
        cols == {ObjectValueForElem(r) : r \in raws}
        added == {PyStr(EnumValue(TransactionType_INCOME)),
                  PyStr(EnumValue(TransactionType_EXPENSE))} \ cols
    IN  IF LookupError \in cols THEN LookupError
        ELSE [m \in months |->
                 [c \in cols \cup added |->
                     IF c \in added THEN Zero
                     ELSE PivotCell(rows, m, DbValueForElem(c))]]

\* What dashboard_page reads from the frame: per month, the columns keyed by
\* TransactionType.INCOME.value and TransactionType.EXPENSE.value.
ProfitLossChart(df) ==
    [m \in DOMAIN df |->
        [income |-> df[m][PyStr(EnumValue(TransactionType_INCOME))],
         expense |-> df[m][PyStr(EnumValue(TransactionType_EXPENSE))]]]

\* get_income_by_counterparty: one row per group.
IncomeRows(txs) ==
    {t \in txs : /\ t.type = DbValueForElem(PyStr(EnumValue(TransactionType_INCOME)))
                 /\ ~t.is_void
                 /\ t.counterparty # None
                 /\ t.counterparty # ""}

get_income_by_counterparty(txs) ==
    LET rows == IncomeRows(txs)
    IN  {[counterparty |-> cp,
          total_income |-> FSum({t \in rows : t.counterparty = cp})]
            : cp \in {t.counterparty : t \in rows}}

\* Category.name LIKE '%Transfer%' over the names init_db seeds (no other
\* category is ever inserted).
LikeTransfer(name) ==
    name \in {"Inter-Account Transfer In", "Inter-Account Transfer Out"}

CategoryName(cats, category_id) ==
    (CHOOSE c \in cats : c.id = category_id).name

ExpenseRows(cats, txs) ==
    {t \in txs : /\ \E c \in cats : c.id = t.category_id
                 /\ t.type = DbValueForElem(PyStr(EnumValue(TransactionType_EXPENSE)))
                 /\ ~t.is_void
                 /\ ~LikeTransfer(CategoryName(cats, t.category_id))}

get_expenses_by_category(cats, txs) ==
    LET rows == ExpenseRows(cats, txs)
    IN  {[category |-> n,
          total_expense |-> FSum({t \in rows :
                                     CategoryName(cats, t.category_id) = n})]
            : n \in {CategoryName(cats, t.category_id) : t \in rows}}

\* get_all_categories: {name: id}
get_all_categories(cats) ==
    [n \in {c.name : c \in cats} |-> (CHOOSE c \in cats : c.name = n).id]

\* get_all_accounts: {"name (currency_code)": id}; the key is kept as the pair
\* it is formatted from.
AccountLabel(a) == [name |-> a.name, currency_code |-> a.currency_code]

get_all_accounts(accs) ==
    [l \in {AccountLabel(a) : a \in accs} |->
        (CHOOSE a \in accs : AccountLabel(a) = l).id]

\* "USD" in from_account_name: neither seeded name holds "USD", so the test
\* is on the currency code in the label.
ContainsUSD(label) == label.currency_code = "USD"

void_transaction_VoidAll(txs, transaction_id, db_ok) ==
    IF db_ok /\ \E t \in txs : t.id = transaction_id
    THEN {[t EXCEPT !.is_void = TRUE] : t \in txs}
    ELSE txs

void_transaction_Toggle(txs, transaction_id, db_ok) ==
    IF db_ok
    THEN {IF t.id = transaction_id THEN [t EXCEPT !.is_void = ~t.is_void] ELSE t
             : t \in txs}
    ELSE txs

\* void_transaction: the rows afterwards (an id that matches nothing changes
\* nothing; a failed commit is rolled back).
void_transaction(txs, transaction_id, db_ok) ==
    IF db_ok
    THEN {IF t.id = transaction_id THEN [t EXCEPT !.is_void = TRUE] ELSE t
             : t \in txs}
    ELSE txs

(***************************************************************************)
(* app.py: the page handlers.  A script run is init_db (pc: "ready") and   *)
(* then one of them.  A button or form of a page can be pressed only when  *)
(* the previous run drew that page (out.page).                             *)
(***************************************************************************)
Pages_SameForAll(role) ==
    {"Dashboard", "View Transactions", "Add Transaction", "Transfer Funds",
     "Reports"}

\* main_app: the pages the sidebar offers.
Pages(role) ==
    IF role = "admin"
    THEN {"Dashboard", "View Transactions", "Add Transaction",
          "Transfer Funds", "Reports"}
    ELSE {"Dashboard", "View Transactions", "Reports"}

LoggedOut == [authenticated |-> FALSE, username |-> None, role |-> None,
              user_id |-> 0, force_rerun |-> FALSE]

NumberInput_NoMin(min_value, entries) == entries

commit_rows_Autocommit(txs, pending, db_fail) ==
    IF db_fail = "flush_deposit" THEN txs \cup {pending[1]}
    ELSE IF db_fail = "none" THEN txs \cup {pending[i] : i \in DOMAIN pending}
    ELSE txs

\* st.number_input(min_value=...): the entries the widget hands to the script.
NumberInput(min_value, entries) == {x \in entries : FLeq(min_value, x)}

AddMinValue == <<0, 1>>
TransferMinValue == <<1, 100>>

\* session.add(...) of each pending row, then session.commit(); any failure
\* reaches the except branch and session.rollback().
commit_rows(txs, pending, db_fail) ==
    IF db_fail = "none" THEN txs \cup {pending[i] : i \in DOMAIN pending}
    ELSE txs

CanRun(page) ==
    /\ pc = "ready"
    /\ ~session_state.force_rerun
    /\ session_state.authenticated
    /\ page \in Pages(session_state.role)

\* main(): force_rerun set by the previous run restarts the script.
Rerun ==
    /\ pc = "ready"
    /\ session_state.force_rerun
    /\ session_state' = [session_state EXCEPT !.force_rerun = FALSE]
    /\ pc' = "start"
    /\ UNCHANGED <<accounts, categories, users, transactions, exchange_rates,
                   today, out>>

login_page(submit_button, username, password) ==
    /\ pc = "ready"
    /\ ~session_state.force_rerun
    /\ ~session_state.authenticated
    /\ submit_button => out.page = "login"
    /\ LET found == {u \in users : u.username = username}
           ok == /\ submit_button
                 /\ found # {}
                 /\ verify_password(First(found).password_hash, password)
       IN  /\ session_state' =
                 IF ok
                 THEN [authenticated |-> TRUE,
                       username |-> First(found).username,
                       role |-> First(found).role,
                       user_id |-> First(found).id,
                       force_rerun |-> TRUE]
                 ELSE session_state
           /\ out' = [page |-> "login",
                      msg |-> IF ok THEN "Login successful!"
                              ELSE IF submit_button
                                   THEN "Invalid username or password."
                                   ELSE "",
                      data |-> NoData]
    /\ pc' = "start"
    /\ UNCHANGED <<accounts, categories, users, transactions, exchange_rates,
                   today>>

\* What dashboard_page computes: the metrics and the three frames.
DashboardData(accs, cats, txs, rates, fetch, day) ==
    LET df == get_profit_loss_data(txs, day)
    IN  [kind |-> "dashboard",
         usd_balance |-> get_account_balance(accs, txs, 1),
         inr_balance |-> get_account_balance(accs, txs, 2),
         latest_rate |-> get_latest_exchange_rate(rates, fetch),
         profit_loss |-> IF df = LookupError THEN <<>> ELSE ProfitLossChart(df),
         income |-> get_income_by_counterparty(txs),
         expenses |-> get_expenses_by_category(cats, txs)]

\* The part of a page drawn before any button of it is read.
RenderData(page, fetch) ==
    IF page = "Dashboard"
    THEN DashboardData(accounts, categories, transactions, exchange_rates,
                       fetch, today)
    ELSE NoData

RenderRates(page, fetch) ==
    IF page \in {"Dashboard", "Transfer Funds"}
    THEN get_latest_rows(exchange_rates, fetch, today)
    ELSE exchange_rates

dashboard_page(fetch) ==
    /\ CanRun("Dashboard")
    /\ exchange_rates' = RenderRates("Dashboard", fetch)
    /\ out' = [page |-> "Dashboard", msg |-> "",
               data |-> RenderData("Dashboard", fetch)]
    /\ pc' = "start"
    /\ UNCHANGED <<accounts, categories, users, transactions, session_state,
                   today>>

reports_page ==
    /\ CanRun("Reports")
    /\ out' = [page |-> "Reports", msg |-> "", data |-> NoData]
    /\ pc' = "start"
    /\ UNCHANGED <<accounts, categories, users, transactions, exchange_rates,
                   session_state, today>>

\* The "All" entry of the account filter, shaped like the other entries.
AllAccounts == [name |-> "All", currency_code |-> ""]

\* The rows view_transactions_page lists under its three filters.
ViewQuery(filter_account, filter_category, filter_voided) ==
    {t \in transactions :
        /\ \E a \in accounts : a.id = t.account_id
        /\ \E c \in categories : c.id = t.category_id
        /\ filter_account # AllAccounts
              => t.account_id = get_all_accounts(accounts)[filter_account]
        /\ filter_category # "All"
              => t.category_id = get_all_categories(categories)[filter_category]
        /\ filter_voided = "No" => ~t.is_void}

\* The "Voided" cell the table shows for an ID ("" when it lists no such row).
VoidedCell(transaction_data, id) ==
    IF \E t \in transaction_data : t.id = id
    THEN IF (CHOOSE t \in transaction_data : t.id = id).is_void THEN "Yes"
         ELSE "No"
    ELSE ""

view_transactions_page(filter_account, filter_category, filter_voided, void_button, selected_id, db_ok) ==
    /\ CanRun("View Transactions")
    /\ void_button => out.page = "View Transactions"
    /\ LET transaction_data ==
               ViewQuery(filter_account, filter_category, filter_voided)
           pressed == /\ transaction_data # {}
                      /\ session_state.role = "admin"
                      /\ void_button
           found == \E t \in transactions : t.id = selected_id
       IN  /\ transactions' =
                 IF pressed
                 THEN void_transaction(transactions, selected_id, db_ok)
                 ELSE transactions
           /\ session_state' =
                 IF pressed /\ found /\ db_ok
                 THEN [session_state EXCEPT !.force_rerun = TRUE]
                 ELSE session_state
           /\ out' = [page |-> "View Transactions",
                      msg |-> IF ~pressed THEN ""
                              ELSE IF ~found THEN "Transaction not found."
                              ELSE IF db_ok
                                   THEN "Transaction voided successfully."
                                   ELSE "Error voiding transaction",
                      data |-> IF pressed
                               THEN [kind |-> "void_transaction",
                                     transaction_id |-> selected_id,
                                     listed |-> VoidedCell(transaction_data,
                                                           selected_id)]
                               ELSE NoData]
    /\ pc' = "start"
    /\ UNCHANGED <<accounts, categories, users, exchange_rates, today>>

add_transaction_page(submitted, trans_date, trans_type, account_name, amount, category_name, counterparty, description, db_fail) ==
    /\ CanRun("Add Transaction")
    /\ submitted => /\ out.page = "Add Transaction"
                    /\ Cardinality(transactions) + 1 <= MaxTx
    /\ account_name \in DOMAIN get_all_accounts(accounts)
    /\ category_name \in DOMAIN get_all_categories(categories)
    /\ LET new_transaction ==
               [id |-> NextId(transactions),
                date |-> trans_date,
                type |-> DbValueForElem(PyStr(trans_type)),
                amount |-> amount,
                description |-> description,
                counterparty |-> counterparty,
                is_void |-> FALSE,
                exchange_rate |-> NULL,
                transfer_id |-> NULL,
                account_id |-> get_all_accounts(accounts)[account_name],
                category_id |-> get_all_categories(categories)[category_name]]
       IN  /\ transactions' =
                 IF submitted
                 THEN commit_rows(transactions, <<new_transaction>>, db_fail)
                 ELSE transactions
           /\ out' = [page |-> "Add Transaction",
                      msg |-> IF ~submitted THEN ""
                              ELSE IF db_fail = "none"
                                   THEN "Transaction added successfully!"
                                   ELSE "Error adding transaction",
                      data |-> NoData]
    /\ pc' = "start"
    /\ UNCHANGED <<accounts, categories, users, exchange_rates, session_state,
                   today>>

deposit_amount_AlwaysMultiply(amount, latest_rate, from_account_name) ==
    FMul(amount, latest_rate)

deposit_amount_FallbackRate(amount, latest_rate, from_account_name) ==
    IF ContainsUSD(from_account_name) THEN FMul(amount, FallbackRate)
    ELSE FDiv(amount, FallbackRate)

\* deposit_amount = amount * latest_rate if "USD" in from_account_name
\*                  else amount / latest_rate
deposit_amount(amount, latest_rate, from_account_name) ==
    IF ContainsUSD(from_account_name) THEN FMul(amount, latest_rate)
    ELSE FDiv(amount, latest_rate)

\* The two rows transfer_funds_page builds, withdrawal first.
TransferLegs(txs, cats, accs, trans_date, from_account_name, amount, to_account_name, description, latest_rate) ==
    LET withdrawal ==
            [id |-> NextId(txs),
             date |-> trans_date,
             type |-> DbValueForElem(PyStr(EnumValue(TransactionType_EXPENSE))),
             amount |-> amount,
             description |-> description,
             counterparty |-> "Internal Transfer",
             is_void |-> FALSE,
             exchange_rate |-> latest_rate,
             transfer_id |-> NULL,
             account_id |-> get_all_accounts(accs)[from_account_name],
             category_id |-> get_all_categories(cats)["Inter-Account Transfer Out"]]
        deposit ==
            [id |-> NextId(txs) + 1,
             date |-> trans_date,
             type |-> DbValueForElem(PyStr(EnumValue(TransactionType_INCOME))),
             amount |-> deposit_amount(amount, latest_rate, from_account_name),
             description |-> description,
             counterparty |-> "Internal Transfer",
             is_void |-> FALSE,
             exchange_rate |-> latest_rate,
             transfer_id |-> NULL,
             account_id |-> get_all_accounts(accs)[to_account_name],
             category_id |-> get_all_categories(cats)["Inter-Account Transfer In"]]
    IN  <<withdrawal, deposit>>

TransferExecutes_NoCheck(submitted, from_account_name, to_account_name) ==
    submitted

\* if submitted and from_account_name != to_account_name:
TransferExecutes(submitted, from_account_name, to_account_name) ==
    submitted /\ from_account_name # to_account_name

\* The exceptions the try block can meet before it touches the session: a
\* reserved category missing from get_all_categories(), a division by zero.
TransferRaises(cats, from_account_name, latest_rate) ==
    \/ "Inter-Account Transfer Out" \notin DOMAIN get_all_categories(cats)
    \/ "Inter-Account Transfer In" \notin DOMAIN get_all_categories(cats)
    \/ ~ContainsUSD(from_account_name) /\ latest_rate[1] = 0

transfer_funds_page(submitted, trans_date, from_account_name, amount, to_account_name, description, fetch, db_fail) ==
    /\ CanRun("Transfer Funds")
    /\ submitted => /\ out.page = "Transfer Funds"
                    /\ Cardinality(transactions) + 2 <= MaxTx
    /\ from_account_name \in DOMAIN get_all_accounts(accounts)
    /\ to_account_name \in DOMAIN get_all_accounts(accounts)
    /\ LET latest_rate == get_latest_exchange_rate(exchange_rates, fetch)
           execute == TransferExecutes(submitted, from_account_name,
                                       to_account_name)
           raises == TransferRaises(categories, from_account_name, latest_rate)
       IN  /\ exchange_rates' = RenderRates("Transfer Funds", fetch)
           /\ transactions' =
                 IF execute /\ ~raises
                 THEN commit_rows(transactions,
                          TransferLegs(transactions, categories, accounts,
                              trans_date, from_account_name, amount,
                              to_account_name, description, latest_rate),
                          db_fail)
                 ELSE transactions
           /\ out' = [page |-> "Transfer Funds",
                      msg |-> IF execute
                              THEN IF ~raises /\ db_fail = "none"
                                   THEN "Funds transferred successfully!"
                                   ELSE "Error transferring funds"
                              ELSE IF from_account_name = to_account_name
                                   THEN "Cannot transfer between the same account."
                                   ELSE "",
                      data |-> [kind |-> "transfer", submitted |-> submitted,
                                from_account_name |-> from_account_name,
                                to_account_name |-> to_account_name,
                                amount |-> amount,
                                latest_rate |-> latest_rate]]
    /\ pc' = "start"
    /\ UNCHANGED <<accounts, categories, users, session_state, today>>

\* The Logout button of main_app: the selected page is drawn, then logout().
Logout(fetch) ==
    /\ CanRun(out.page)
    /\ exchange_rates' = RenderRates(out.page, fetch)
    /\ out' = [page |-> out.page, msg |-> "",
               data |-> RenderData(out.page, fetch)]
    /\ session_state' = [LoggedOut EXCEPT !.force_rerun = TRUE]
    /\ pc' = "start"
    /\ UNCHANGED <<accounts, categories, users, transactions, today>>

\* date.today() moves on between two runs.
NextDay ==
    /\ pc = "start"
    /\ today < FirstToday + MaxDay
    /\ today' = today + 1
    /\ UNCHANGED <<accounts, categories, users, transactions, exchange_rates,
                   session_state, pc, out>>

(***************************************************************************)
(* app.py: the two rate helpers called on their own, between two runs of   *)
(* the script (one writer: a call ends before the next begins).            *)
(***************************************************************************)
\* What lines 47-50 can raise: requests.get (a transport error),
\* raise_for_status (a bad HTTP status), response.json() (a body that is not
\* JSON), data['rates']['INR'] (a JSON body without the rate).
RequestExceptions == {"ConnectionError", "HTTPError"}
OtherExceptions == {"JSONDecodeError", "KeyError"}

Handled_OnlyRequestException(raised) == raised \in RequestExceptions

\* except requests.RequestException / except Exception
Handled(raised) == raised \in RequestExceptions \cup OtherExceptions

Return(value) == [kind |-> "return", py |-> "", value |-> value]
Raise(raised) == [kind |-> "raise", py |-> raised, value |-> Zero]

\* The outcome of lines 47-50 as the page handlers see it: <<>> for an
\* exception, else the rate.
FetchOutcome(raised, current_rate) == IF raised = "" THEN current_rate ELSE <<>>

\* What a call of fetch_and_store_exchange_rate gives its caller.
FetchResult(raised, current_rate) ==
    IF raised = "" \/ Handled(raised)
    THEN Return(fetch_and_store_value(FetchOutcome(raised, current_rate)))
    ELSE Raise(raised)

\* st.success / st.error of fetch_and_store_exchange_rate.
FetchMsg(rates, raised, day) ==
    IF raised \in RequestExceptions THEN "Failed to fetch exchange rate"
    ELSE IF raised # "" THEN "An error occurred"
    ELSE IF \E r \in rates : r.date = day THEN ""
    ELSE "Fetched and stored new exchange rate"

CallFetchAndStore(raised, current_rate) ==
    /\ pc = "start"
    /\ exchange_rates' = fetch_and_store_rows(exchange_rates,
                             FetchOutcome(raised, current_rate), today)
    /\ out' = [page |-> "none",
               msg |-> FetchMsg(exchange_rates, raised, today),
               data |-> [kind |-> "fetch_and_store_exchange_rate",
                         raised |-> raised,
                         fetched |-> TRUE,
                         result |-> FetchResult(raised, current_rate)]]
    /\ UNCHANGED <<accounts, categories, users, transactions, session_state,
                   today, pc>>

CallGetLatest(raised, current_rate) ==
    /\ pc = "start"
    /\ exchange_rates' = get_latest_rows(exchange_rates,
                             FetchOutcome(raised, current_rate), today)
    /\ out' = [page |-> "none",
               msg |-> IF exchange_rates # {} THEN ""
                       ELSE FetchMsg(exchange_rates, raised, today),
               data |-> [kind |-> "get_latest_exchange_rate",
                         raised |-> IF exchange_rates # {} THEN "" ELSE raised,
                         fetched |-> exchange_rates = {},
                         result |-> IF exchange_rates # {}
                                    THEN Return(LatestRow(exchange_rates).usd_to_inr)
                                    ELSE FetchResult(raised, current_rate)]]
    /\ UNCHANGED <<accounts, categories, users, transactions, session_state,
                   today, pc>>

Init ==
    /\ accounts = {}
    /\ categories = {}
    /\ users = {}
    /\ transactions = {}
    /\ exchange_rates = {}
    /\ session_state = LoggedOut
    /\ today = FirstToday
    /\ pc = "start"
    /\ out = NoOutput

(***************************************************************************)
(* Inputs.                                                                 *)
(***************************************************************************)
Salts == {"s1", "s2"}
Usernames == {"admin", "viewer"}
Passwords == {"admin123", "view123"}
Fetches == {<<>>, <<167, 2>>}
TypeChoices == {EnumValue(TransactionType_INCOME),
                EnumValue(TransactionType_EXPENSE)}
AccountNames == {[name |-> "US Business Account", currency_code |-> "USD"],
                 [name |-> "India Business Account", currency_code |-> "INR"]}
TransferDbFails == {"none", "flush_withdrawal", "flush_deposit", "commit"}
AddDbFails == {"none", "commit"}

\* The widgets' values in a run where no form of the page is submitted: the
\* defaults (selectbox options are sorted by name).
IndiaLabel == [name |-> "India Business Account", currency_code |-> "INR"]
USLabel == [name |-> "US Business Account", currency_code |-> "USD"]

\* The runs of the portal over the inputs I: what is typed into the forms
\* (dates, amounts, accounts, categories, counterparties) and what the rate
\* service answers.
Run(I) ==
    \/ \E s1, s2 \in I.salts : InitDb(s1, s2)
    \/ Rerun
    \/ login_page(FALSE, "", "")
    \/ \E u \in Usernames, p \in Passwords : login_page(TRUE, u, p)
    \/ \E f \in I.fetches : dashboard_page(f)
    \/ reports_page
    \/ view_transactions_page(AllAccounts, "All", "No", FALSE, 1, TRUE)
    \/ \E fa \in {AllAccounts} \cup I.accounts, fv \in {"No", "Yes"},
          id \in 1..(MaxTx + 1), ok \in BOOLEAN :
          view_transactions_page(fa, "All", fv, TRUE, id, ok)
    \/ add_transaction_page(FALSE, today, "income", IndiaLabel, AddMinValue,
                            "Client Revenue", "", "", "none")
    \/ \E d \in I.dates, ty \in I.types, a \in I.accounts,
          x \in NumberInput(AddMinValue, I.amounts), c \in I.categories,
          cp \in I.counterparties, db \in AddDbFails :
          add_transaction_page(TRUE, d, ty, a, x, c, cp, "", db)
    \/ \E f \in I.fetches :
          transfer_funds_page(FALSE, today, IndiaLabel, TransferMinValue,
                              USLabel, "Inter-Account Transfer", f, "none")
    \/ \E d \in I.dates, fr \in AccountNames,
          x \in NumberInput(TransferMinValue, I.transfer_amounts),
          to \in AccountNames, f \in I.fetches, db \in TransferDbFails :
          transfer_funds_page(TRUE, d, fr, x, to, "Inter-Account Transfer", f, db)
    \/ \E f \in I.fetches : Logout(f)
    \/ NextDay

LedgerInputs ==
    [salts |-> {"s1"},
     dates |-> {5, 32},
     types |-> TypeChoices,
     accounts |-> AccountNames,
     amounts |-> {<<100, 1>>},
     categories |-> {"Software Expense"},
     counterparties |-> {"", "Acme"},
     transfer_amounts |-> {<<100, 1>>},
     fetches |-> Fetches]

TransferInputs ==
    [salts |-> {"s1"},
     dates |-> {32},
     types |-> TypeChoices,
     accounts |-> {USLabel},
     amounts |-> {<<-100, 1>>, <<0, 1>>, <<100, 1>>},
     categories |-> {"Software Expense"},
     counterparties |-> {"Acme"},
     transfer_amounts |-> {<<0, 1>>, <<100, 1>>},
     fetches |-> Fetches]

SeedInputs ==
    [salts |-> Salts,
     dates |-> {32},
     types |-> {"income"},
     accounts |-> {USLabel},
     amounts |-> {<<100, 1>>},
     categories |-> {"Software Expense"},
     counterparties |-> {"Acme"},
     transfer_amounts |-> {<<100, 1>>},
     fetches |-> {<<>>}]

Next == Run(LedgerInputs)
Spec == Init /\ [][Next]_vars

NextTransfer == Run(TransferInputs)
SpecTransfer == Init /\ [][NextTransfer]_vars

NextSeed == Run(SeedInputs)
SpecSeed == Init /\ [][NextSeed]_vars

\* Direct calls of the rate helpers: every exception lines 47-50 can raise,
\* and the rates the service can answer.
RateValues == {<<167, 2>>, <<84, 1>>, <<0, 1>>}

RateCalls(exceptions, rates) ==
    \/ \E e \in exceptions : CallFetchAndStore(e, <<167, 2>>)
    \/ \E r \in rates : CallFetchAndStore("", r)
    \/ \E e \in exceptions : CallGetLatest(e, <<167, 2>>)
    \/ \E r \in rates : CallGetLatest("", r)

NextRates == RateCalls(RequestExceptions \cup OtherExceptions, RateValues) \/ NextDay
SpecRates == Init /\ [][NextRates]_vars

\* The runs of the portal together with direct calls of the rate helpers.
LockedInputs ==
    [salts |-> {"s1"},
     dates |-> {32},
     types |-> {"income"},
     accounts |-> {USLabel},
     amounts |-> {<<100, 1>>},
     categories |-> {"Software Expense"},
     counterparties |-> {"Acme"},
     transfer_amounts |-> {<<100, 1>>},
     fetches |-> {<<>>}]

NextLocked == Run(LockedInputs) \/ RateCalls({"HTTPError"}, {<<167, 2>>, <<84, 1>>})
SpecLocked == Init /\ [][NextLocked]_vars

(***************************************************************************)
(* The claims.                                                             *)
(***************************************************************************)
IsIncome(t) == t.type \in {"income", "INCOME"}
IsExpense(t) == t.type \in {"expense", "EXPENSE"}

\* A step that is the page handler of a run.
PageStep == pc = "ready" /\ pc' = "start" /\ ~session_state.force_rerun

\* Sum over the account's non-void INCOME rows minus sum over its non-void
\* EXPENSE rows.
LedgerBalance(txs, account_id) ==
    FSub(FSum({t \in txs : t.account_id = account_id /\ ~t.is_void /\ IsIncome(t)}),
         FSum({t \in txs : t.account_id = account_id /\ ~t.is_void /\ IsExpense(t)}))

\* C1: whenever a run can read balances (init_db has run), the balance
\* get_account_balance returns for each account is the sum of its non-void
\* INCOME amounts minus the sum of its non-void EXPENSE amounts.
C1_BalanceIsIncomeMinusExpense ==
    pc = "ready" =>
        \A a \in accounts :
            get_account_balance(accounts, transactions, a.id)
                = LedgerBalance(transactions, a.id)

\* C2: voiding a stored non-void transaction t moves the balance of t's account
\* by -t.amount (INCOME) or +t.amount (EXPENSE), moves no other balance, and a
\* second void of t changes nothing more.
C2_VoidMovesBalanceByAmount ==
    [][\A t \in transactions :
          (/\ ~t.is_void
           /\ transactions' = (transactions \ {t})
                                  \cup {[t EXCEPT !.is_void = TRUE]})
          => /\ \A a \in accounts :
                   LET before == get_account_balance(accounts, transactions, a.id)
                       after == get_account_balance(accounts', transactions', a.id)
                   IN  after = IF a.id # t.account_id THEN before
                               ELSE IF IsIncome(t) THEN FSub(before, t.amount)
                               ELSE FAdd(before, t.amount)
             /\ void_transaction(transactions', t.id, TRUE) = transactions'
      ]_vars

AddDone ==
    /\ PageStep
    /\ out'.page = "Add Transaction"
    /\ out'.msg = "Transaction added successfully!"

SameAccountSubmitted ==
    /\ PageStep
    /\ out'.page = "Transfer Funds"
    /\ out'.data.kind = "transfer"
    /\ out'.data.submitted
    /\ out'.data.from_account_name = out'.data.to_account_name

TransferDone ==
    /\ PageStep
    /\ out'.page = "Transfer Funds"
    /\ out'.msg = "Funds transferred successfully!"

\* The two legs a successful transfer adds, read off the form it was given.
TransferAddsLegs ==
    LET form == out'.data
        F == CHOOSE a \in accounts : AccountLabel(a) = form.from_account_name
        T == CHOOSE a \in accounts : AccountLabel(a) = form.to_account_name
        a == form.amount
        r == form.latest_rate
    IN  /\ F # T
        /\ \E w, d \in transactions' \ transactions :
              /\ w # d
              /\ transactions' = transactions \cup {w, d}
              /\ IsExpense(w) /\ w.account_id = F.id /\ w.amount = a
              /\ CategoryName(categories, w.category_id)
                     = "Inter-Account Transfer Out"
              /\ w.exchange_rate = r
              /\ IsIncome(d) /\ d.account_id = T.id
              /\ CategoryName(categories, d.category_id)
                     = "Inter-Account Transfer In"
              /\ d.exchange_rate = r
              /\ F.currency_code = "USD" => d.amount = FMul(a, r)
              /\ F.currency_code = "INR" => d.amount = FDiv(a, r)
              /\ ~w.is_void /\ ~d.is_void
              /\ w.date = d.date
        /\ accounts' = accounts
        /\ categories' = categories
        /\ users' = users

\* C5 as stated: a successful transfer adds the withdrawal and the deposit and
\* nothing else to the store.
C5_TransferAddsOnlyTwoLegs ==
    [][TransferDone => TransferAddsLegs /\ exchange_rates' = exchange_rates]_vars

\* C5 as amended: a successful transfer adds the withdrawal and the deposit, no
\* other transaction, and changes no account, category or user; when no rate
\* was stored, the same run may also store the rate it fetched.
C5_TransferAddsTwoLegs ==
    [][TransferDone =>
          /\ TransferAddsLegs
          /\ exchange_rates # {} => exchange_rates' = exchange_rates
      ]_vars

\* C5 witness: a transfer out of the INR account succeeded (the deposit is the
\* amount divided by the rate).
C5_TransferFromInrDone ==
    /\ out.page = "Transfer Funds"
    /\ out.msg = "Funds transferred successfully!"
    /\ out.data.from_account_name.currency_code = "INR"
    /\ \E d \in transactions :
          /\ d.id + 1 = NextId(transactions)
          /\ d.amount = FDiv(out.data.amount, out.data.latest_rate)

\* C6: no state holds one leg of a transfer without the other.  A leg is a row
\* with an exchange_rate (only a transfer sets one); the withdrawal and the
\* deposit of one transfer have consecutive ids.
C6_TransferLegsComeInPairs ==
    \A t \in transactions :
        t.exchange_rate # NULL =>
            \/ /\ IsExpense(t)
               /\ \E d \in transactions :
                     /\ d.id = t.id + 1
                     /\ IsIncome(d)
                     /\ d.exchange_rate = t.exchange_rate
                     /\ d.date = t.date
            \/ /\ IsIncome(t)
               /\ \E w \in transactions :
                     /\ w.id + 1 = t.id
                     /\ IsExpense(w)
                     /\ w.exchange_rate = t.exchange_rate
                     /\ w.date = t.date

\* C6 witness: a submitted transfer failed inside its try block.
C6_TransferFailed ==
    /\ out.page = "Transfer Funds"
    /\ out.msg = "Error transferring funds"

\* The months and totals the claim expects of the monthly query, over the
\* non-void rows the query's six-month window keeps.
ExpectedProfitLoss(txs, day) ==
    LET rows == {t \in txs : ~t.is_void /\ t.date >= day - WindowDays}
    IN  [m \in {StrftimeYm(t.date) : t \in rows} |->
            [income |-> FSum({t \in rows : StrftimeYm(t.date) = m /\ IsIncome(t)}),
             expense |-> FSum({t \in rows : StrftimeYm(t.date) = m /\ IsExpense(t)})]]

\* C7: the frame the dashboard reads has one row per month with a non-void
\* transaction, with that month's INCOME total and EXPENSE total in the
\* columns keyed by the two type values.
C7_MonthlyTotals ==
    pc = "ready" =>
        ProfitLossChart(get_profit_loss_data(transactions, today))
            = ExpectedProfitLoss(transactions, today)

\* C8: expenses by category has one row per category without "Transfer" in its
\* name that has a non-void EXPENSE transaction, holding the sum of those.
C8_ExpensesByCategory ==
    pc = "ready" =>
        get_expenses_by_category(categories, transactions)
            = LET rows == {t \in transactions :
                              /\ IsExpense(t) /\ ~t.is_void
                              /\ ~LikeTransfer(CategoryName(categories,
                                                            t.category_id))}
              IN  {[category |-> n,
                    total_expense |->
                        FSum({t \in rows :
                                 CategoryName(categories, t.category_id) = n})]
                      : n \in {CategoryName(categories, t.category_id) : t \in rows}}

\* C9: income by counterparty has one row per non-empty counterparty that has a
\* non-void INCOME transaction, holding the sum of those.
C9_IncomeByCounterparty ==
    pc = "ready" =>
        get_income_by_counterparty(transactions)
            = LET rows == {t \in transactions :
                              /\ IsIncome(t) /\ ~t.is_void
                              /\ t.counterparty \notin {None, ""}}
              IN  {[counterparty |-> cp,
                    total_income |-> FSum({t \in rows : t.counterparty = cp})]
                      : cp \in {t.counterparty : t \in rows}}

\* A step of init_db (the only step that ends with pc = "ready").
InitDbStep == pc' = "ready"

Seeded ==
    /\ {a.currency_code : a \in accounts'} = {"USD", "INR"}
    /\ Cardinality(accounts') = 2
    /\ {c.name : c \in categories'}
           = {default_categories[i] : i \in DOMAIN default_categories}
    /\ Cardinality(categories') = 10
    /\ {<<u.username, u.role>> : u \in users'}
           = {<<"admin", "admin">>, <<"viewer", "viewer">>}
    /\ Cardinality(users') = 2

RemoteFetchStep ==
    /\ out' # out
    /\ out'.data.kind \in {"fetch_and_store_exchange_rate",
                           "get_latest_exchange_rate"}
    /\ out'.data.fetched

\* C11: when the remote fetch fails (transport error, bad HTTP status, a body
\* that is not JSON or lacks the rate), fetch_and_store_exchange_rate returns
\* 83.0, raises nothing, and leaves the stored exchange rates as they were.
C11_FetchFailureReturnsFallback ==
    [][(RemoteFetchStep /\ out'.data.raised # "") =>
          /\ out'.data.result = Return(<<83, 1>>)
          /\ exchange_rates' = exchange_rates
      ]_vars

\* C11 witness: a fetch failed on a JSON body without the rate while a rate
\* was stored for the day, and the call returned 83.0.
C11_FetchFailedWithRateStored ==
    /\ out.data.kind = "fetch_and_store_exchange_rate"
    /\ out.data.raised = "KeyError"
    /\ out.data.result = Return(<<83, 1>>)
    /\ \E r \in exchange_rates : r.date = today /\ r.usd_to_inr # <<83, 1>>

GetLatestStep ==
    /\ out' # out
    /\ out'.data.kind = "get_latest_exchange_rate"

\* C12: with at least one rate stored, get_latest_exchange_rate returns the
\* usd_to_inr of the row of greatest date, fetches nothing and writes nothing;
\* with none stored it fetches, and returns and stores what
\* fetch_and_store_exchange_rate does (the rate, stored for today, or 83.0 and
\* no row when the fetch fails).
C12_LatestRateIsOfGreatestDate ==
    [][GetLatestStep =>
          IF exchange_rates # {}
          THEN /\ ~out'.data.fetched
               /\ \E r \in exchange_rates :
                     /\ \A q \in exchange_rates : q.date <= r.date
                     /\ out'.data.result = Return(r.usd_to_inr)
               /\ exchange_rates' = exchange_rates
          ELSE /\ out'.data.fetched
               /\ out'.data.raised = "" =>
                     \E r \in exchange_rates' :
                         /\ exchange_rates' = {r}
                         /\ r.date = today
                         /\ out'.data.result = Return(r.usd_to_inr)
               /\ out'.data.raised # "" =>
                     /\ exchange_rates' = {}
                     /\ out'.data.result = Return(<<83, 1>>)
      ]_vars

\* C12 witness: with two rates of different dates and values stored, the call
\* returned the later one's value without fetching.
C12_LaterOfTwoRatesReturned ==
    /\ out.data.kind = "get_latest_exchange_rate"
    /\ ~out.data.fetched
    /\ \E r, q \in exchange_rates :
          /\ r.date < q.date
          /\ r.usd_to_inr # q.usd_to_inr
          /\ out.data.result = Return(q.usd_to_inr)

\* A step in which the Void Transaction button called void_transaction.
VoidStep ==
    /\ PageStep
    /\ out'.page = "View Transactions"
    /\ out'.data.kind = "void_transaction"

\* C13: void_transaction with an id that matches no stored transaction reports
\* "Transaction not found." and leaves every transaction as it was; with an id
\* that matches one it sets that transaction's is_void to TRUE, whatever it
\* was, and changes no other field and no other transaction (when the commit
\* itself fails, the error is reported and nothing is changed).
C13_VoidSetsOnlyIsVoid ==
    [][VoidStep =>
          LET id == out'.data.transaction_id
          IN  IF \A t \in transactions : t.id # id
              THEN /\ out'.msg = "Transaction not found."
                   /\ transactions' = transactions
              ELSE \/ /\ out'.msg = "Transaction voided successfully."
                      /\ \A t \in transactions :
                            IF t.id = id
                            THEN [t EXCEPT !.is_void = TRUE] \in transactions'
                            ELSE t \in transactions'
                      /\ Cardinality(transactions') = Cardinality(transactions)
                   \/ /\ out'.msg = "Error voiding transaction"
                      /\ transactions' = transactions
      ]_vars

\* C13 witness: a transaction the table showed as voided was voided again, next
\* to another one that is still not void.
C13_VoidedAgain ==
    /\ out.page = "View Transactions"
    /\ out.msg = "Transaction voided successfully."
    /\ out.data.kind = "void_transaction"
    /\ out.data.listed = "Yes"
    /\ \E t, q \in transactions :
          /\ t.id = out.data.transaction_id
          /\ t.is_void
          /\ ~q.is_void

\* The session is unauthenticated or logged in with a role other than admin.
NotAdmin == ~session_state.authenticated \/ session_state.role # "admin"

\* C14: no step taken while the session is unauthenticated or a viewer's
\* creates a transaction or voids one: the ids stored and each id's is_void
\* stay as they were, and the page handler of such a run leaves the
\* transactions untouched.
C14_OnlyAdminCreatesOrVoids ==
    [][NotAdmin =>
          /\ {t.id : t \in transactions'} = {t.id : t \in transactions}
          /\ \A t \in transactions, q \in transactions' :
                q.id = t.id => q.is_void = t.is_void
          /\ pc = "ready" => transactions' = transactions
      ]_vars

\* C14 witness: a viewer's run drew View Transactions while a non-void
\* transaction was stored.
C14_ViewerSawTransactions ==
    /\ session_state.authenticated
    /\ session_state.role = "viewer"
    /\ out.page = "View Transactions"
    /\ \E t \in transactions : ~t.is_void

\* C15: in every state, every stored transaction's type is INCOME or EXPENSE
\* as the store represents them for reads (a row holding it loads as one of
\* the two members); right after add_transaction or a transfer has written
\* the row too.
C15_StoredTypeIsIncomeOrExpense ==
    \A t \in transactions :
        ObjectValueForElem(t.type)
            \in {TransactionType_INCOME, TransactionType_EXPENSE}

\* C16: under any sequence of calls of the two rate helpers by one writer the
\* store holds at most one ExchangeRate row per date; a successful fetch on a
\* date without a row inserts one row for it, and a successful fetch on a date
\* with a row sets that row's rate and inserts nothing.
C16_OneRatePerDate ==
    [][/\ \A r, q \in exchange_rates' : r.date = q.date => r = q
       /\ (RemoteFetchStep /\ out'.data.raised = "") =>
             LET rate == out'.data.result.value
             IN  IF \E r \in exchange_rates : r.date = today
                 THEN \E r \in exchange_rates :
                         /\ r.date = today
                         /\ exchange_rates' = (exchange_rates \ {r})
                                \cup {[r EXCEPT !.usd_to_inr = rate]}
                 ELSE \E n \in exchange_rates' \ exchange_rates :
                         /\ exchange_rates' = exchange_rates \cup {n}
                         /\ n.date = today
                         /\ n.usd_to_inr = rate
      ]_vars

\* C16 witness: a rate is stored for each of two dates, and the last call was
\* a successful fetch that found today's row and set its rate.
C16_RateUpdatedInPlace ==
    /\ out.data.kind = "fetch_and_store_exchange_rate"
    /\ out.data.raised = ""
    /\ out.msg = ""
    /\ \E r, q \in exchange_rates :
          /\ r.date = today
          /\ r.usd_to_inr = out.data.result.value
          /\ q.date < today
          /\ q.usd_to_inr # r.usd_to_inr

\* C17: a transaction that is void stays void, and no step removes a stored
\* transaction: every stored id is still stored after the step, and still void
\* if it was.
C17_VoidIsOneWay ==
    [][\A t \in transactions :
          \E q \in transactions' :
              /\ q.id = t.id
              /\ t.is_void => q.is_void
      ]_vars

\* C17 witness: a transaction was added after another one had been voided, and
\* the voided one is still stored and void.
C17_VoidedRowOutlivesAdd ==
    /\ out.page = "Add Transaction"
    /\ out.msg = "Transaction added successfully!"
    /\ \E t, n \in transactions :
          /\ t.is_void
          /\ n.id = t.id + 1
          /\ n.id + 1 = NextId(transactions)
          /\ ~n.is_void

====
